---- MODULE Spec2Model ----
(***************************************************************************)
(* PDF Tools backend (src/main.py): the temp-file lifecycle of the merge,  *)
(* split and images-to-pdf handlers and the download handler.              *)
(*                                                                         *)
(* Strings are sequences of tokens.  "/" and "." are tokens of their own;  *)
(* every other token stands for a run of characters holding neither.       *)
(* The temp directory is the function fs from the names of the files in    *)
(* it to their contents.  Each handler is cut into steps at its file       *)
(* system operations; the steps of different requests interleave, as they  *)
(* do between worker processes that share TEMP_DIR.  os.remove of a file   *)
(* the handler wrote itself succeeds; copying an upload, parsing it and    *)
(* writing the output may each fail.                                       *)
(***************************************************************************)
EXTENDS Integers, Sequences, FiniteSets, TLC

VARIABLES fs, nextUuid, req, returned, lastDownload

vars == <<fs, nextUuid, req, returned, lastDownload>>

(***************************************************************************)
(* Bounds of the model.                                                    *)
(***************************************************************************)
NumReq == 2
MaxFiles == 2
MaxPages == 3
MaxPageArg == 4
MaxUuid == 3
MaxIdLen == 4

(***************************************************************************)
(* String helpers (Python str / posixpath).                                *)
(***************************************************************************)
TEMP_DIR == <<"/", "tmp", "/", "processed_files">>

\* Position of the last occurrence of token t in s, 0 when there is none
\* (str.rfind(t) + 1).
RFind(s, t) ==
    LET hits == {i \in 1..Len(s) : s[i] = t}
    IN  IF hits = {} THEN 0 ELSE CHOOSE i \in hits : \A j \in hits : j <= i

\* posixpath.basename: everything after the last "/".
basename(p) == SubSeq(p, RFind(p, "/") + 1, Len(p))

\* posixpath.join(a, b) for two arguments.
join(a, b) ==
    IF b # <<>> /\ b[1] = "/" THEN b
    ELSE IF a = <<>> \/ a[Len(a)] = "/" THEN a \o b
    ELSE a \o <<"/">> \o b

\* str.lower on a token.
LowerTok(t) ==
    CASE t = "PDF" -> "pdf"
      [] t = "PNG" -> "png"
      [] t = "JPG" -> "jpg"
      [] OTHER -> t

lower(s) == [i \in 1..Len(s) |-> LowerTok(s[i])]

endswith(s, suf) ==
    /\ Len(s) >= Len(suf)
    /\ SubSeq(s, Len(s) - Len(suf) + 1, Len(s)) = suf

\* filename.split(".")[-1]: everything after the last ".".
last_split_dot(s) == SubSeq(s, RFind(s, ".") + 1, Len(s))

(***************************************************************************)
(* Path resolution by the operating system: the components of a path,      *)
(* with "", "." skipped and ".." going to the parent.  A location is the   *)
(* sequence of the names from the root.                                    *)
(***************************************************************************)
RECURSIVE Components(_)
Components(p) ==
    IF p = <<>> THEN <<>>
    ELSE LET hits == {i \in 1..Len(p) : p[i] = "/"}
             cut  == IF hits = {} THEN Len(p) + 1
                     ELSE CHOOSE i \in hits : \A j \in hits : i <= j
         IN  <<SubSeq(p, 1, cut - 1)>> \o Components(SubSeq(p, cut + 1, Len(p)))

RECURSIVE Walk(_, _)
Walk(loc, comps) ==
    IF comps = <<>> THEN loc
    ELSE LET c == Head(comps)
             next == IF c = <<>> \/ c = <<".">> THEN loc
                     ELSE IF c = <<".", ".">>
                          THEN (IF loc = <<>> THEN <<>> ELSE SubSeq(loc, 1, Len(loc) - 1))
                          ELSE Append(loc, c)
         IN  Walk(next, Tail(comps))

Resolve(p) == Walk(<<>>, Components(p))

TempLoc == Resolve(TEMP_DIR)

\* The directories that exist: "/", "/tmp" and TEMP_DIR (os.makedirs).
Dirs == {SubSeq(TempLoc, 1, k) : k \in 0..Len(TempLoc)}

\* A location directly inside the temp root.
InTempRoot(loc) ==
    /\ Len(loc) = Len(TempLoc) + 1
    /\ SubSeq(loc, 1, Len(TempLoc)) = TempLoc

IsStoredFile(loc) == InTempRoot(loc) /\ loc[Len(loc)] \in DOMAIN fs

\* open(p, "wb") followed by what is written: the file at p holds c.
write_file(store, p, c) ==
    LET name == Resolve(p)[Len(Resolve(p))]
    IN  [n \in DOMAIN store \cup {name} |-> IF n = name THEN c ELSE store[n]]

\* os.remove(p) inside try/except: a missing file is ignored.
os_remove(store, p) ==
    LET name == Resolve(p)[Len(Resolve(p))]
    IN  [n \in DOMAIN store \ {name} |-> store[n]]

RECURSIVE remove_all(_, _)
remove_all(store, paths) ==
    IF paths = <<>> THEN store
    ELSE remove_all(os_remove(store, Head(paths)), Tail(paths))

\* os.path.exists
exists(p) == Resolve(p) \in Dirs \/ IsStoredFile(Resolve(p))

(***************************************************************************)
(* File contents.                                                          *)
(***************************************************************************)
NoContent == [kind |-> "none", pages |-> <<>>]
Empty     == [kind |-> "empty", pages |-> <<>>]
Partial   == [kind |-> "partial", pages |-> <<>>]
BadBytes  == [kind |-> "bad", pages |-> <<>>]
NotAFile  == [kind |-> "dir", pages |-> <<>>]
Pdf(pages) == [kind |-> "pdf", pages |-> pages]

\* The bytes at a path that exists.
ReadPath(p) ==
    IF IsStoredFile(Resolve(p)) THEN fs[Resolve(p)[Len(Resolve(p))]] ELSE NotAFile

(***************************************************************************)
(* download_file                                                           *)
(***************************************************************************)
NoDownload ==
    [file_id |-> <<>>, status |-> 0, loc |-> <<>>, body |-> NoContent, known |-> FALSE]

ReturnedIds == {a.file_id : a \in returned}

\* The response to GET /api/download/{file_id} in the current state: 404, or
\* 200 when the handler returns FileResponse(path=file_path).  loc is where
\* file_path leads, body what is there.
download_file(file_id) ==
    LET safe_name == basename(file_id)
        file_path == join(TEMP_DIR, safe_name)
    IN  IF ~exists(file_path)
        THEN [status |-> 404, loc |-> Resolve(file_path), body |-> NoContent]
        ELSE [status |-> 200, loc |-> Resolve(file_path), body |-> ReadPath(file_path)]

Download(file_id) ==
    /\ LET resp == download_file(file_id)
       IN  lastDownload' = [file_id |-> file_id, status |-> resp.status,
                            loc |-> resp.loc, body |-> resp.body,
                            known |-> file_id \in ReturnedIds]
    /\ UNCHANGED <<fs, nextUuid, req, returned>>

(***************************************************************************)
(* Identifiers a client may send: every string of at most MaxIdLen tokens. *)
(***************************************************************************)
IdTokens == {"/", ".", "secret", "etc"}

PathIds == UNION {[1..n -> IdTokens] : n \in 1..MaxIdLen}

NoPath == <<>>

(***************************************************************************)
(* Requests.  A request slot holds the handler's local variables, its      *)
(* position pc and its response (status, file_id; detail_total is the page *)
(* count named in the detail of split_pdf's 400).  docs, body, ins and     *)
(* outs record what the invocation read, wrote and created.                *)
(***************************************************************************)
Req == 1..NumReq

NewReq(op, files, sp, ep) ==
    [op |-> op, pc |-> "idle", files |-> files, start_page |-> sp, end_page |-> ep,
     i |-> 1, saved_paths |-> <<>>, dest |-> NoPath, docs |-> <<>>,
     writer |-> <<>>, objs |-> <<>>, pil_images |-> <<>>, out_path |-> NoPath,
     total |-> -1, status |-> 0, detail_total |-> -1,
     file_id |-> NoPath, body |-> NoContent, ins |-> {}, outs |-> {}]

IdleReq == NewReq("idle", <<>>, 0, 0)

\* A faulty uuid4: the same identifier every time.
uuid4_fixed == "1"

\* str(uuid.uuid4()): an identifier no earlier call returned.
uuid4 == ToString(nextUuid)

\* The model generates at most MaxUuid identifiers.
HasUuid == nextUuid <= MaxUuid

ImageExts ==
    {<<".", "png">>, <<".", "jpg">>, <<".", "jpeg">>, <<".", "webp">>, <<".", "bmp">>}

is_pdf_name(filename) == endswith(lower(filename), <<".", "pdf">>)

is_image_name(filename) == \E ext \in ImageExts : endswith(lower(filename), ext)

\* _save_upload up to open(dest_path, "wb"): the generated path.
save_upload_dest(filename) ==
    LET ext == lower(last_split_dot(basename(filename)))
    IN  join(TEMP_DIR, <<uuid4, ".">> \o ext)

\* The pages of the n-page document uploaded to path p.
DocOf(p, n) == [k \in 1..n |-> <<basename(p), k>>]

\* An exception (or HTTPException) raised inside the try block.
Fail(q, status) == [q EXCEPT !.status = status, !.pc = "finally"]

Set(r, q) == req' = [req EXCEPT ![r] = q]

\* A slot starts only after the slots before it (the slots are alike).
CanStart(r) ==
    /\ req[r].pc = "idle"
    /\ IF r = 1 THEN TRUE ELSE req[r - 1].pc # "idle"

(***************************************************************************)
(* merge_pdfs                                                              *)
(***************************************************************************)
MergeStart(r, files) ==
    /\ CanStart(r)
    /\ IF Len(files) < 2
       THEN Set(r, [NewReq("merge", files, 0, 0) EXCEPT !.pc = "done", !.status = 400])
       ELSE Set(r, [NewReq("merge", files, 0, 0) EXCEPT !.pc = "loop"])
    /\ UNCHANGED <<fs, nextUuid, returned, lastDownload>>

\* A faulty add_pages: the pages of a file go before those already added.
add_pages_front(writer, pages) == pages \o writer

\* for page in reader.pages: writer.add_page(page)
add_pages(writer, pages) == writer \o pages

\* Lines 75-78 up to open() in _save_upload, and lines 83-85 after the loop.
MergeLoop(r) ==
    LET q == req[r] IN
    /\ q.op = "merge" /\ q.pc = "loop"
    /\ IF q.i > Len(q.files)
       THEN LET out_path == join(TEMP_DIR, <<"merged_", uuid4, ".", "pdf">>) IN
            /\ HasUuid
            /\ fs' = write_file(fs, out_path, Empty)
            /\ nextUuid' = nextUuid + 1
            /\ Set(r, [q EXCEPT !.out_path = out_path, !.pc = "write",
                                !.outs = @ \cup {out_path}])
       ELSE IF ~is_pdf_name(q.files[q.i])
       THEN /\ Set(r, Fail(q, 400))
            /\ UNCHANGED <<fs, nextUuid>>
       ELSE IF q.files[q.i] = <<>>
       THEN /\ Set(r, Fail(q, 400))
            /\ UNCHANGED <<fs, nextUuid>>
       ELSE LET dest == save_upload_dest(q.files[q.i]) IN
            /\ HasUuid
            /\ fs' = write_file(fs, dest, Empty)
            /\ nextUuid' = nextUuid + 1
            /\ Set(r, [q EXCEPT !.dest = dest, !.pc = "copy", !.ins = @ \cup {dest}])
    /\ UNCHANGED <<returned, lastDownload>>

\* shutil.copyfileobj in _save_upload, then lines 79-82.  u.io: the copy
\* succeeds; u.pages: the page count of the upload, -1 when it is no PDF.
MergeCopy(r, u) ==
    LET q == req[r] IN
    /\ q.op = "merge" /\ q.pc = "copy"
    /\ IF ~u.io
       THEN /\ fs' = write_file(fs, q.dest, Partial)
            /\ Set(r, Fail(q, 500))
       ELSE IF u.pages < 0
       THEN /\ fs' = write_file(fs, q.dest, BadBytes)
            /\ Set(r, [Fail(q, 500) EXCEPT !.saved_paths = Append(@, q.dest)])
       ELSE /\ fs' = write_file(fs, q.dest, Pdf(DocOf(q.dest, u.pages)))
            /\ Set(r, [q EXCEPT !.saved_paths = Append(@, q.dest),
                                !.docs = Append(@, DocOf(q.dest, u.pages)),
                                !.writer = add_pages(@, DocOf(q.dest, u.pages)),
                                !.i = @ + 1, !.pc = "loop"])
    /\ UNCHANGED <<nextUuid, returned, lastDownload>>

(***************************************************************************)
(* split_pdf                                                               *)
(***************************************************************************)
\* A faulty invalid_range: a range ending on the last page is rejected.
invalid_range_last(start_page, end_page, total) ==
    start_page < 1 \/ end_page < start_page \/ end_page >= total

\* Line 109.
invalid_range(start_page, end_page, total) ==
    start_page < 1 \/ end_page < start_page \/ end_page > total

\* A faulty split_pages: range(start_page, end_page).
split_pages_late(pages, start_page, end_page) ==
    [j \in 1..(end_page - start_page) |-> pages[start_page + (j - 1) + 1]]

\* Lines 111-113: reader.pages[i] for i in range(start_page - 1, end_page),
\* pages being indexed from 0 there and from 1 here.
split_pages(pages, start_page, end_page) ==
    [j \in 1..(end_page - (start_page - 1)) |-> pages[(start_page - 1) + (j - 1) + 1]]

\* Lines 103-105 up to open() in _save_upload.
SplitStart(r, filename, start_page, end_page) ==
    /\ CanStart(r)
    /\ IF ~is_pdf_name(filename)
       THEN /\ Set(r, [NewReq("split", <<filename>>, start_page, end_page) EXCEPT
                         !.pc = "done", !.status = 400])
            /\ UNCHANGED <<fs, nextUuid>>
       ELSE IF filename = <<>>
       THEN /\ Set(r, [NewReq("split", <<filename>>, start_page, end_page) EXCEPT
                         !.pc = "done", !.status = 400])
            /\ UNCHANGED <<fs, nextUuid>>
       ELSE LET dest == save_upload_dest(filename) IN
            /\ HasUuid
            /\ fs' = write_file(fs, dest, Empty)
            /\ nextUuid' = nextUuid + 1
            /\ Set(r, [NewReq("split", <<filename>>, start_page, end_page) EXCEPT
                         !.dest = dest, !.pc = "copy", !.ins = {dest}])
    /\ UNCHANGED <<returned, lastDownload>>

\* shutil.copyfileobj in _save_upload (outside the try block), then lines
\* 107-115; saved_paths holds src_path.
SplitCopy(r, u) ==
    LET q == req[r] IN
    /\ q.op = "split" /\ q.pc = "copy"
    /\ IF ~u.io
       THEN /\ fs' = write_file(fs, q.dest, Partial)
            /\ Set(r, [q EXCEPT !.status = 500, !.pc = "done"])
            /\ UNCHANGED nextUuid
       ELSE IF u.pages < 0
       THEN /\ fs' = write_file(fs, q.dest, BadBytes)
            /\ Set(r, [Fail(q, 500) EXCEPT !.saved_paths = <<q.dest>>])
            /\ UNCHANGED nextUuid
       ELSE IF invalid_range(q.start_page, q.end_page, u.pages)
       THEN /\ fs' = write_file(fs, q.dest, Pdf(DocOf(q.dest, u.pages)))
            /\ Set(r, [Fail(q, 400) EXCEPT
                         !.saved_paths = <<q.dest>>,
                         !.docs = <<DocOf(q.dest, u.pages)>>,
                         !.total = u.pages, !.detail_total = u.pages])
            /\ UNCHANGED nextUuid
       ELSE LET out_path == join(TEMP_DIR, <<"split_", uuid4, ".", "pdf">>) IN
            /\ HasUuid
            /\ fs' = write_file(write_file(fs, q.dest, Pdf(DocOf(q.dest, u.pages))),
                                out_path, Empty)
            /\ nextUuid' = nextUuid + 1
            /\ Set(r, [q EXCEPT
                         !.saved_paths = <<q.dest>>,
                         !.docs = <<DocOf(q.dest, u.pages)>>,
                         !.total = u.pages,
                         !.writer = split_pages(DocOf(q.dest, u.pages),
                                                q.start_page, q.end_page),
                         !.out_path = out_path, !.outs = {out_path},
                         !.pc = "write"])
    /\ UNCHANGED <<returned, lastDownload>>

\* writer.write(out_file) and return _make_download(out_path, ...), for
\* merge_pdfs (85-87) and split_pdf (116-118).  ok: the write succeeds.
WriteOut(r, ok) ==
    LET q == req[r] IN
    /\ q.pc = "write"
    /\ IF ~ok
       THEN /\ fs' = write_file(fs, q.out_path, Partial)
            /\ Set(r, Fail(q, 500))
       ELSE /\ fs' = write_file(fs, q.out_path, Pdf(q.writer))
            /\ Set(r, [q EXCEPT !.status = 200, !.file_id = basename(q.out_path),
                                !.body = Pdf(q.writer), !.pc = "finally"])
    /\ UNCHANGED <<nextUuid, returned, lastDownload>>

(***************************************************************************)
(* images_to_pdf                                                           *)
(***************************************************************************)
ImagesStart(r, images) ==
    /\ CanStart(r)
    /\ IF Len(images) = 0
       THEN Set(r, [NewReq("images", images, 0, 0) EXCEPT !.pc = "done", !.status = 400])
       ELSE Set(r, [NewReq("images", images, 0, 0) EXCEPT !.pc = "loop"])
    /\ UNCHANGED <<fs, nextUuid, returned, lastDownload>>

\* Lines 139-142 up to open() in _save_upload, and lines 146-148.
ImagesLoop(r) ==
    LET q == req[r] IN
    /\ q.op = "images" /\ q.pc = "loop"
    /\ IF q.i > Len(q.files)
       THEN /\ HasUuid
            /\ Set(r, [q EXCEPT
                         !.out_path = join(TEMP_DIR, <<"images_", uuid4, ".", "pdf">>),
                         !.pc = "save"])
            /\ nextUuid' = nextUuid + 1
            /\ UNCHANGED fs
       ELSE IF ~is_image_name(q.files[q.i])
       THEN /\ Set(r, Fail(q, 400))
            /\ UNCHANGED <<fs, nextUuid>>
       ELSE IF q.files[q.i] = <<>>
       THEN /\ Set(r, Fail(q, 400))
            /\ UNCHANGED <<fs, nextUuid>>
       ELSE LET dest == save_upload_dest(q.files[q.i]) IN
            /\ HasUuid
            /\ fs' = write_file(fs, dest, Empty)
            /\ nextUuid' = nextUuid + 1
            /\ Set(r, [q EXCEPT !.dest = dest, !.pc = "copy", !.ins = @ \cup {dest}])
    /\ UNCHANGED <<returned, lastDownload>>

Opened    == [kind |-> "opened", closed |-> FALSE]
Converted == [kind |-> "converted", closed |-> FALSE]

\* shutil.copyfileobj in _save_upload, then lines 143-145.  u.io: the copy
\* succeeds; u.decodes: Image.open succeeds; u.converts: convert succeeds.
ImagesCopy(r, u) ==
    LET q == req[r] IN
    /\ q.op = "images" /\ q.pc = "copy"
    /\ IF ~u.io
       THEN /\ fs' = write_file(fs, q.dest, Partial)
            /\ Set(r, Fail(q, 500))
       ELSE IF ~u.decodes
       THEN /\ fs' = write_file(fs, q.dest, BadBytes)
            /\ Set(r, [Fail(q, 500) EXCEPT !.saved_paths = Append(@, q.dest)])
       ELSE IF ~u.converts
       THEN /\ fs' = write_file(fs, q.dest, Pdf(DocOf(q.dest, 1)))
            /\ Set(r, [Fail(q, 500) EXCEPT !.saved_paths = Append(@, q.dest),
                                           !.objs = Append(@, Opened)])
       ELSE /\ fs' = write_file(fs, q.dest, Pdf(DocOf(q.dest, 1)))
            /\ Set(r, [q EXCEPT !.saved_paths = Append(@, q.dest),
                                !.docs = Append(@, DocOf(q.dest, 1)),
                                !.objs = @ \o <<Opened, Converted>>,
                                !.pil_images = Append(@, Len(q.objs) + 2),
                                !.writer = @ \o DocOf(q.dest, 1),
                                !.i = @ + 1, !.pc = "loop"])
    /\ UNCHANGED <<nextUuid, returned, lastDownload>>

\* Line 149-150: first.save(out_path, ...) creates and writes the file.
\* A failed save leaves a partial file ("left") or none ("removed").
ImagesSave(r, outcome) ==
    LET q == req[r] IN
    /\ q.op = "images" /\ q.pc = "save"
    /\ CASE outcome = "ok" ->
              /\ fs' = write_file(fs, q.out_path, Pdf(q.writer))
              /\ Set(r, [q EXCEPT !.status = 200, !.file_id = basename(q.out_path),
                                  !.body = Pdf(q.writer), !.outs = {q.out_path},
                                  !.pc = "finally"])
         [] outcome = "left" ->
              /\ fs' = write_file(fs, q.out_path, Partial)
              /\ Set(r, [Fail(q, 500) EXCEPT !.outs = {q.out_path}])
         [] OTHER ->
              /\ fs' = fs
              /\ Set(r, Fail(q, 500))
    /\ UNCHANGED <<nextUuid, returned, lastDownload>>

\* im.close() for every image of pil_images.
close_all(objs, pil_images) ==
    [k \in 1..Len(objs) |->
       IF \E j \in 1..Len(pil_images) : pil_images[j] = k
       THEN [objs[k] EXCEPT !.closed = TRUE] ELSE objs[k]]

\* The finally blocks (88-93, 119-123, 151-161); the response then leaves.
Finally(r) ==
    LET q == req[r] IN
    /\ q.pc = "finally"
    /\ fs' = remove_all(fs, q.saved_paths)
    /\ Set(r, [q EXCEPT !.pc = "done", !.objs = close_all(q.objs, q.pil_images)])
    /\ returned' = IF q.status = 200
                   THEN returned \cup {[file_id |-> q.file_id, body |-> q.body]}
                   ELSE returned
    /\ UNCHANGED <<nextUuid, lastDownload>>

(***************************************************************************)
(* Inputs.                                                                 *)
(***************************************************************************)
\* Names of uploads: "a.pdf", "b.PDF", "c.txt", "" and "d.png", "e.JPG".
PdfNames   == {<<"a", ".", "pdf">>, <<"b", ".", "PDF">>}
OtherNames == {<<"c", ".", "txt">>, <<>>}
ImageNames == {<<"d", ".", "png">>, <<"e", ".", "JPG">>}

FileLists(names) == UNION {[1..n -> names] : n \in 0..MaxFiles}

\* What an uploaded PDF may be: a failed copy, no PDF, or a PDF of n pages.
PdfUploads(counts) ==
    {[io |-> FALSE, pages |-> -1], [io |-> TRUE, pages |-> -1]}
      \cup {[io |-> TRUE, pages |-> n] : n \in counts}

ImageUploads ==
    {[io |-> FALSE, decodes |-> FALSE, converts |-> FALSE],
     [io |-> TRUE,  decodes |-> FALSE, converts |-> FALSE],
     [io |-> TRUE,  decodes |-> TRUE,  converts |-> FALSE],
     [io |-> TRUE,  decodes |-> TRUE,  converts |-> TRUE]}

SaveOutcomes == {"ok", "left", "removed"}

Init ==
    /\ fs = [n \in {} |-> NoContent]
    /\ nextUuid = 1
    /\ req = [r \in Req |-> IdleReq]
    /\ returned = {}
    /\ lastDownload = NoDownload

\* Identifiers sent while a request runs: the names in the temp directory
\* and a name that was never stored.
SysIds == DOMAIN fs \cup {<<"secret">>}

DownloadStored == \E file_id \in SysIds : Download(file_id)

DownloadAny == \E file_id \in PathIds : Download(file_id)

DownloadReturned == \E file_id \in ReturnedIds : Download(file_id)

(***************************************************************************)
(* Spec: NumReq concurrent requests on small inputs, and downloads.        *)
(***************************************************************************)
Merge ==
    \E r \in Req :
      \/ MergeStart(r, <<<<"a", ".", "pdf">>, <<"b", ".", "PDF">>>>)
      \/ MergeLoop(r)
      \/ \E u \in PdfUploads({1}) : MergeCopy(r, u)

Split ==
    \E r \in Req :
      \/ SplitStart(r, <<"a", ".", "pdf">>, 1, 1)
      \/ \E u \in PdfUploads({1}) : SplitCopy(r, u)

Images ==
    \E r \in Req :
      \/ ImagesStart(r, <<<<"d", ".", "png">>>>)
      \/ ImagesLoop(r)
      \/ \E u \in ImageUploads : ImagesCopy(r, u)
      \/ \E o \in SaveOutcomes : ImagesSave(r, o)

Finish == \E r \in Req : (\E ok \in BOOLEAN : WriteOut(r, ok)) \/ Finally(r)

Next == Merge \/ Split \/ Images \/ Finish \/ DownloadReturned

Spec == Init /\ [][Next]_vars

(***************************************************************************)
(* SpecOne: one request at a time, on every input within the bounds.       *)
(***************************************************************************)
MergeOne ==
    \/ \E files \in FileLists(PdfNames \cup OtherNames) : MergeStart(1, files)
    \/ MergeLoop(1)
    \/ \E u \in PdfUploads(1..MaxPages) : MergeCopy(1, u)

SplitOne ==
    \/ \E filename \in PdfNames \cup OtherNames :
         \E s \in 0..MaxPageArg : \E e \in 0..MaxPageArg : SplitStart(1, filename, s, e)
    \/ \E u \in PdfUploads(0..MaxPages) : SplitCopy(1, u)

ImagesOne ==
    \/ \E images \in FileLists(ImageNames \cup OtherNames) : ImagesStart(1, images)
    \/ ImagesLoop(1)
    \/ \E u \in ImageUploads : ImagesCopy(1, u)
    \/ \E o \in SaveOutcomes : ImagesSave(1, o)

FinishOne == (\E ok \in BOOLEAN : WriteOut(1, ok)) \/ Finally(1)

NextOne == MergeOne \/ SplitOne \/ ImagesOne \/ FinishOne \/ DownloadStored

SpecOne == Init /\ [][NextOne]_vars

(***************************************************************************)
(* SpecPath: download_file on every identifier within the bound.           *)
(***************************************************************************)
NextPath == DownloadAny

SpecPath == Init /\ [][NextPath]_vars

(***************************************************************************)
(* Claims.                                                                 *)
(***************************************************************************)
Done(r) == req[r].pc = "done"

\* The file at path p is in the temp directory.
Stored(p) == basename(p) \in DOMAIN fs

\* The paths the request in slot r created: uploaded inputs and output.
Created(r) == req[r].ins \cup req[r].outs

RECURSIVE SumLen(_, _)
SumLen(docs, k) == IF k = 0 THEN 0 ELSE SumLen(docs, k - 1) + Len(docs[k])

\* C1: when a handler has returned, on whatever exit path, no file it
\* created for an uploaded input is left in the temp directory.
C1_NoInputLeft ==
    \A r \in Req : Done(r) => \A p \in req[r].ins : ~Stored(p)

\* C2: every identifier given to download_file resolves to a file directly
\* inside the temp root, never to the root, its parent or a path outside.
C2_ResolvesInsideTempRoot ==
    lastDownload.status # 0 => InTempRoot(lastDownload.loc)

\* C3: a returned file_id is served from then on, with the bytes its handler
\* wrote, whatever other requests and their cleanups do; and two requests
\* never create a file of the same name.
C3_ArtifactStays ==
    /\ \A a \in returned :
         /\ download_file(a.file_id).status = 200
         /\ download_file(a.file_id).body = a.body
    /\ lastDownload.known =>
         /\ lastDownload.status = 200
         /\ \E a \in returned :
              a.file_id = lastDownload.file_id /\ a.body = lastDownload.body
    /\ \A r1 \in Req : \A r2 \in Req :
         r1 # r2 => Created(r1) \cap Created(r2) = {}

\* A returned artifact was downloaded, and another request that had saved
\* uploads has run its cleanup and returned.
C3_Witness ==
    /\ lastDownload.known /\ lastDownload.status = 200
    /\ \E r1 \in Req : \E r2 \in Req :
         /\ r1 # r2
         /\ Done(r1) /\ req[r1].file_id = lastDownload.file_id
         /\ Done(r2) /\ req[r2].saved_paths # <<>>

\* C4: download_file of an identifier that no handler has returned answers
\* 404 in every state, also while a request is in flight.
C4_UnknownIdNotFound ==
    (lastDownload.status # 0 /\ ~lastDownload.known) => lastDownload.status = 404

\* C5: after an invocation the temp directory holds, of the files the
\* invocation created, exactly the output if it succeeded and none if it
\* failed.
C5_OnlyOutputRemains ==
    \A r \in Req :
      Done(r) => {p \in Created(r) : Stored(p)}
                   = (IF req[r].status = 200 THEN {req[r].out_path} ELSE {})

\* C6: split_pdf on a PDF of N pages answers 400 exactly when start_page < 1
\* or end_page < start_page or end_page > N; the 400 names N, no output is
\* created and the uploaded input is deleted.
C6_SplitRejectsBadRange ==
    \A r \in Req :
      (Done(r) /\ req[r].op = "split" /\ req[r].total >= 0) =>
        LET q == req[r]
            bad == q.start_page < 1 \/ q.end_page < q.start_page
                     \/ q.end_page > q.total
        IN  /\ (q.status = 400) <=> bad
            /\ bad => /\ q.detail_total = q.total
                      /\ q.outs = {}
                      /\ \A p \in q.ins : ~Stored(p)

\* A split of a MaxPages-page PDF was rejected for end_page > N.
C6_Witness ==
    \E r \in Req :
      /\ Done(r) /\ req[r].op = "split" /\ req[r].status = 400
      /\ req[r].total = MaxPages /\ req[r].start_page = 1
      /\ req[r].end_page = MaxPages + 1

\* C7: a valid split [s, e] writes e-s+1 pages, the i-th being input page
\* s+i-1.
C7_SplitPages ==
    \A r \in Req :
      (Done(r) /\ req[r].op = "split" /\ req[r].status = 200) =>
        LET q == req[r]
            n == q.end_page - q.start_page + 1
        IN  /\ Stored(q.out_path)
            /\ fs[basename(q.out_path)].kind = "pdf"
            /\ Len(fs[basename(q.out_path)].pages) = n
            /\ \A i \in 1..n :
                 fs[basename(q.out_path)].pages[i] = q.docs[1][q.start_page + i - 1]

\* A split of pages 2..MaxPages of a MaxPages-page PDF succeeded.
C7_Witness ==
    \E r \in Req :
      /\ Done(r) /\ req[r].op = "split" /\ req[r].status = 200
      /\ req[r].start_page = 2 /\ req[r].end_page = MaxPages
      /\ req[r].total = MaxPages

\* C8: a valid merge writes the concatenation of the inputs' pages in the
\* order the files were supplied.
C8_MergeConcatenates ==
    \A r \in Req :
      (Done(r) /\ req[r].op = "merge" /\ req[r].status = 200) =>
        LET q == req[r] IN
        /\ Stored(q.out_path)
        /\ fs[basename(q.out_path)].kind = "pdf"
        /\ Len(q.docs) = Len(q.files)
        /\ Len(fs[basename(q.out_path)].pages) = SumLen(q.docs, Len(q.docs))
        /\ \A i \in 1..Len(q.docs) : \A j \in 1..Len(q.docs[i]) :
             fs[basename(q.out_path)].pages[SumLen(q.docs, i - 1) + j] = q.docs[i][j]

\* A merge of MaxFiles files of different page counts succeeded.
C8_Witness ==
    \E r \in Req :
      /\ Done(r) /\ req[r].op = "merge" /\ req[r].status = 200
      /\ Len(req[r].docs) = MaxFiles
      /\ Len(req[r].docs[1]) = MaxPages
      /\ Len(req[r].docs[2]) = 1

\* C9: a merge of fewer than two files, or with a file at any position
\* whose name does not end in .pdf, answers 400 and creates no output.
C9_MergeInvalidInput ==
    \A r \in Req :
      (/\ Done(r) /\ req[r].op = "merge"
       /\ \/ Len(req[r].files) < 2
          \/ \E i \in 1..Len(req[r].files) : ~is_pdf_name(req[r].files[i]))
        => (req[r].status = 400 /\ req[r].outs = {})

\* C10: when images_to_pdf returns, every image object it opened or derived
\* is closed and every uploaded image file it saved is deleted.
C10_ImagesReleased ==
    \A r \in Req :
      (Done(r) /\ req[r].op = "images") =>
        /\ \A k \in 1..Len(req[r].objs) : req[r].objs[k].closed
        /\ \A p \in req[r].ins : ~Stored(p)

====
